---- MODULE Spec2Model ----
(***************************************************************************)
(* A model of UDLib.py: conllu2graph, the UDTree operations and            *)
(* conllu2trees.  Python strings are sequences of one-character strings,   *)
(* so that splitting and joining are computed, not assumed.                *)
(***************************************************************************)
EXTENDS Integers, Sequences, FiniteSets, TLC

TAB == "\t"
NL == "\n"
CR == "\r"
SP == " "

\* Bounds of the model.
MaxLines == 3
MaxBlocks == 3

Range(s) == {s[i] : i \in DOMAIN s}

----------------------------------------------------------------------------
\* Python string primitives.

\* str.join
RECURSIVE join(_, _)
join(parts, sep) ==
    IF parts = <<>> THEN <<>>
    ELSE IF Len(parts) = 1 THEN parts[1]
    ELSE parts[1] \o sep \o join(Tail(parts), sep)

\* does separator sep occur in s at position i
MatchAt(s, sep, i) ==
    /\ i + Len(sep) - 1 <= Len(s)
    /\ \A j \in 1..Len(sep) : s[i + j - 1] = sep[j]

MinOf(S) == CHOOSE j \in S : \A k \in S : j <= k
MaxOf(S) == CHOOSE j \in S : \A k \in S : j >= k

\* the pieces of s from position i on, cut at each leftmost occurrence of sep
RECURSIVE splitFrom(_, _, _)
splitFrom(s, sep, i) ==
    LET hits == {j \in i..Len(s) : MatchAt(s, sep, j)} IN
    IF hits = {} THEN <<SubSeq(s, i, Len(s))>>
    ELSE LET j == MinOf(hits)
         IN <<SubSeq(s, i, j - 1)>> \o splitFrom(s, sep, j + Len(sep))

\* str.split(sep) with an explicit separator
split(s, sep) == splitFrom(s, sep, 1)

\* the line boundaries of str.splitlines (a "\r\n" pair is one boundary)
LineBreaks == {NL, CR}

RECURSIVE splitlinesFrom(_, _)
splitlinesFrom(s, i) ==
    IF i > Len(s) THEN <<>>
    ELSE LET hits == {j \in i..Len(s) : s[j] \in LineBreaks} IN
         IF hits = {} THEN <<SubSeq(s, i, Len(s))>>
         ELSE LET j == MinOf(hits)
                  w == IF s[j] = CR /\ j < Len(s) /\ s[j + 1] = NL
                       THEN 2 ELSE 1
              IN <<SubSeq(s, i, j - 1)>> \o splitlinesFrom(s, j + w)

\* str.splitlines(): no empty last line after a final boundary
splitlines(s) == splitlinesFrom(s, 1)

\* str.strip(chars): drop leading and trailing characters of the set
strip(s, chars) ==
    LET keep == {j \in 1..Len(s) : s[j] \notin chars} IN
    IF keep = {} THEN <<>> ELSE SubSeq(s, MinOf(keep), MaxOf(keep))

\* the characters str.strip() removes when called without arguments
Whitespace == {SP, TAB, NL, CR}

\* str.startswith
startswith(s, prefix) == MatchAt(s, prefix, 1)

\* str.lower on one character
lowerChar(c) ==
    IF c = "A" THEN "a" ELSE IF c = "B" THEN "b" ELSE c

lower(s) == [i \in DOMAIN s |-> lowerChar(s[i])]

----------------------------------------------------------------------------
\* UDNode and UDEdge.

NumFields == 10

UDNode(fields) ==
    [ID |-> fields[1], FORM |-> fields[2], Lemma |-> fields[3],
     UPOS |-> fields[4], XPOS |-> fields[5], FEATS |-> fields[6],
     HEAD |-> fields[7], DEPREL |-> fields[8], DEPS |-> fields[9],
     MISC |-> fields[10]]

\* a rendering that forgets the last field
UDNode_str_NoMisc(n) ==
    join(<<n.ID, n.FORM, n.Lemma, n.UPOS, n.XPOS, n.FEATS,
           n.HEAD, n.DEPREL, n.DEPS>>, <<TAB>>)

\* UDNode.__str__
UDNode_str(n) ==
    join(<<n.ID, n.FORM, n.Lemma, n.UPOS, n.XPOS, n.FEATS,
           n.HEAD, n.DEPREL, n.DEPS, n.MISC>>, <<TAB>>)

UDEdge(head, relation, directionality) ==
    [head |-> head, relation |-> relation, directionality |-> directionality]

----------------------------------------------------------------------------
\* conllu2graph.

EmptyMap == <<>>

\* dict[key] = value
DictPut(d, key, value) ==
    IF key \in DOMAIN d THEN [d EXCEPT ![key] = value]
    ELSE d @@ (key :> value)

\* defaultdict(list).__getitem__: a missing key is inserted with []
DefaultGet(g, key) ==
    IF key \in DOMAIN g THEN g ELSE g @@ (key :> <<>>)

\* graph[key].append(edge)
GraphAppend(g, key, edge) ==
    [DefaultGet(g, key) EXCEPT ![key] = Append(@, edge)]

IsComment(line) == startswith(line, <<"#">>)

\* a check that lets extra fields through
FieldCountOk_AtLeast(fields) == Len(fields) >= NumFields

\* assert len(fields) == 10
FieldCountOk(fields) == Len(fields) = NumFields

NoParent == <<"_">>

UpEdge(key, parent, relation) == UDEdge(parent, relation, "up")

\* a down-edge stored with the wrong direction tag
DownEdge_TaggedUp(key, parent, relation) == UDEdge(key, relation, "up")

\* a down-edge that names the parent instead of the dependent
DownEdge_ToParent(key, parent, relation) == UDEdge(parent, relation, "down")

DownEdge(key, parent, relation) == UDEdge(key, relation, "down")

\* keys that are appended only when first seen
AddNode_Dedup(st, key, ud_node) ==
    [st EXCEPT !.keys = IF key \in DOMAIN st.nodes THEN @ ELSE Append(@, key),
               !.nodes = DictPut(@, key, ud_node)]

\* nodes that are stored only when they have a parent
AddNode_SkipNoParent(st, key, ud_node) ==
    [st EXCEPT !.keys = Append(@, key),
               !.nodes = IF ud_node.HEAD = NoParent THEN @
                         ELSE DictPut(@, key, ud_node)]

\* keys.append(key); nodes[key] = ud_node
AddNode(st, key, ud_node) ==
    [st EXCEPT !.keys = Append(@, key),
               !.nodes = DictPut(@, key, ud_node)]

LoopInit ==
    [id_lines |-> <<>>, keys |-> <<>>, nodes |-> EmptyMap,
     graph |-> EmptyMap, err |-> "none"]

\* one iteration of the loop over record.splitlines()
ProcessLine(st, line) ==
    IF IsComment(line)
    THEN [st EXCEPT !.id_lines = Append(@, line)]
    ELSE LET fields == split(strip(line, {NL}), <<TAB>>) IN
         IF ~FieldCountOk(fields)
         THEN [st EXCEPT !.err = "AssertionError"]
         ELSE LET key == fields[1]
                  ud_node == UDNode(fields)
                  parent == ud_node.HEAD
                  relation == ud_node.DEPREL
                  st1 == AddNode(st, key, ud_node)
              IN IF parent = NoParent THEN st1
                 ELSE [st1 EXCEPT !.graph =
                         GraphAppend(
                           GraphAppend(@, key, UpEdge(key, parent, relation)),
                           parent, DownEdge(key, parent, relation))]

RECURSIVE Loop(_, _, _)
Loop(st, lines, i) ==
    IF i > Len(lines) \/ st.err # "none" THEN st
    ELSE Loop(ProcessLine(st, lines[i]), lines, i + 1)

conllu2graph(rec) == Loop(LoopInit, splitlines(rec), 1)

\* UDTree(*conllu2graph(record))
UDTree(r) ==
    [id_lines |-> r.id_lines, keys |-> r.keys, nodes |-> r.nodes,
     graph |-> r.graph]

----------------------------------------------------------------------------
\* UDTree methods.  Each returns the value (or the exception raised) and
\* the graph as the call leaves it.

UDTree_str(t) ==
    join(t.id_lines \o [i \in DOMAIN t.keys |-> UDNode_str(t.nodes[t.keys[i]])],
         <<NL>>)

get_sentence(t) ==
    join([i \in DOMAIN t.keys |-> lower(t.nodes[t.keys[i]].FORM)], <<SP>>)

\* children taken from the up-edges
get_node_children_Up(g, node_idx) ==
    LET edges == DefaultGet(g, node_idx)[node_idx]
        up == SelectSeq(edges, LAMBDA el : el.directionality = "up")
    IN [i \in DOMAIN up |-> up[i].head]

get_node_children(g, node_idx) ==
    LET edges == DefaultGet(g, node_idx)[node_idx]
        down == SelectSeq(edges, LAMBDA el : el.directionality = "down")
    IN [i \in DOMAIN down |-> down[i].head]

\* the value get_real_root returns, or the exception of the [0] subscript
get_real_root(g) ==
    LET children == get_node_children(g, <<"0">>) IN
    IF children = <<>> THEN [val |-> <<>>, err |-> "IndexError"]
    ELSE [val |-> children[1], err |-> "none"]

----------------------------------------------------------------------------
\* The inputs: CoNLL-U lines given field by field, as in the test record
\* of the source, and the text they are written as.

U == <<"_">>

NodeLine(id, form, head, deprel, misc) ==
    <<id, form, lower(form), U, U, U, head, deprel, U, misc>>

SrcLines ==
    { << <<"#", "a">> >>,                                  \* a comment
      NodeLine(<<"1">>, <<"A">>, <<"0">>, <<"r">>, U),     \* a root
      NodeLine(<<"1">>, <<"A">>, <<"2">>, <<"d">>, U),
      NodeLine(<<"2">>, <<"B">>, <<"1">>, <<"d">>, U),
      NodeLine(<<"2">>, <<"B">>, <<"0">>, <<"r">>, <<"_", CR>>),
      NodeLine(<<"1", "-", "2">>, <<"A", "B">>, U, U, U),  \* a multiword range
      NodeLine(<<"0">>, <<"B">>, <<"1">>, <<"d">>, U),
      <<<<"1">>, <<"A">>, U, U, U, U, <<"0">>, <<"r">>, U>>,          \* 9 fields
      <<<<"2">>, <<"B">>, U, U, U, U, <<"1">>, <<"d">>, U, U, U>> }   \* 11 fields

SeqsUpTo(S, n) == UNION {[1..k -> S] : k \in 0..n}

LineText(fields) == join(fields, <<TAB>>)

BlockText(lines) == join([i \in DOMAIN lines |-> LineText(lines[i])], <<NL>>)

\* the blocks of the multi-block files
BatchBlocks ==
    { <<<< <<"#", "a">> >>, NodeLine(<<"1">>, <<"A">>, <<"0">>, <<"r">>, U)>>,
      <<NodeLine(<<"1">>, <<"A">>, <<"2">>, <<"d">>, U),
        NodeLine(<<"2">>, <<"B">>, <<"0">>, <<"r">>, U)>>,
      <<<<<<"1">>, <<"A">>, U, U, U, U, <<"0">>, <<"r">>, U>>>>,
      <<NodeLine(<<"1">>, <<"A">>, <<"0">>, <<"r">>, U),
        <<<<"2">>, <<"B">>, U, U, U, U, <<"1">>, <<"d">>, U, U, U>>>> }

FileText(bs) == join([i \in DOMAIN bs |-> BlockText(bs[i])], <<NL, NL>>)

\* the keys the tree is queried with
QueryKeys == {<<"0">>, <<"1">>, <<"2">>}

----------------------------------------------------------------------------
VARIABLES
    src,       \* the lines of the input block, field by field
    record,    \* the text passed to conllu2graph
    pc,        \* "start", "built" or "failed"
    tree,      \* <<>> or <<t>>, the UDTree the caller holds
    err,       \* the exception that escaped the last call, or "none"
    result,    \* the last method call and its value
    srcBlocks, \* the blocks of the input file, field by field
    txt,       \* the content of the file at path
    blocks,    \* conllu2trees: the split text
    bi,        \* conllu2trees: index of the block being built
    acc,       \* conllu2trees: the list under construction
    bpc,       \* "open", "loop", "returned" or "raised"
    returned   \* the list conllu2trees returned to its caller

vars == <<src, record, pc, tree, err, result,
          srcBlocks, txt, blocks, bi, acc, bpc, returned>>

treeVars == <<src, record, pc, tree, err, result>>
batchVars == <<srcBlocks, txt, blocks, bi, acc, bpc, returned>>

NoResult == [op |-> "none", arg |-> <<>>, val |-> <<>>]

TreeIdle ==
    /\ src = <<>> /\ record = <<>> /\ pc = "start" /\ tree = <<>>
    /\ err = "none" /\ result = NoResult

BatchIdle ==
    /\ srcBlocks = <<>> /\ txt = <<>> /\ blocks = <<>> /\ bi = 1
    /\ acc = <<>> /\ bpc = "open" /\ returned = <<>>

Init ==
    /\ src \in SeqsUpTo(SrcLines, MaxLines)
    /\ \E trailing \in {<<>>, <<NL>>} : record = BlockText(src) \o trailing
    /\ pc = "start" /\ tree = <<>> /\ err = "none" /\ result = NoResult
    /\ BatchIdle

\* ud_tree = UDTree(*conllu2graph(record))
Build ==
    /\ pc = "start"
    /\ LET r == conllu2graph(record) IN
         IF r.err # "none"
         THEN /\ pc' = "failed"
              /\ err' = r.err
              /\ tree' = tree
         ELSE /\ pc' = "built"
              /\ err' = "none"
              /\ tree' = <<UDTree(r)>>
    /\ UNCHANGED <<src, record, result>>
    /\ UNCHANGED batchVars

\* str(ud_tree)
Str ==
    /\ pc = "built"
    /\ result' = [op |-> "str", arg |-> <<>>, val |-> UDTree_str(tree[1])]
    /\ err' = "none"
    /\ UNCHANGED <<src, record, pc, tree>>
    /\ UNCHANGED batchVars

\* ud_tree.get_sentence()
GetSentence ==
    /\ pc = "built"
    /\ result' = [op |-> "get_sentence", arg |-> <<>>,
                  val |-> get_sentence(tree[1])]
    /\ err' = "none"
    /\ UNCHANGED <<src, record, pc, tree>>
    /\ UNCHANGED batchVars

\* ud_tree.get_node_children(k)
GetNodeChildren(k) ==
    /\ pc = "built"
    /\ result' = [op |-> "get_node_children", arg |-> k,
                  val |-> get_node_children(tree[1].graph, k)]
    /\ tree' = <<[tree[1] EXCEPT !.graph = DefaultGet(@, k)]>>
    /\ err' = "none"
    /\ UNCHANGED <<src, record, pc>>
    /\ UNCHANGED batchVars

\* ud_tree.get_real_root()
GetRealRoot ==
    /\ pc = "built"
    /\ LET r == get_real_root(tree[1].graph) IN
         /\ err' = r.err
         /\ result' = [op |-> "get_real_root", arg |-> <<>>, val |-> r.val]
    /\ tree' = <<[tree[1] EXCEPT !.graph = DefaultGet(@, <<"0">>)]>>
    /\ UNCHANGED <<src, record, pc>>
    /\ UNCHANGED batchVars

Next ==
    \/ Build
    \/ Str
    \/ GetSentence
    \/ \E k \in QueryKeys : GetNodeChildren(k)
    \/ GetRealRoot

Spec == Init /\ [][Next]_vars

----------------------------------------------------------------------------
\* conllu2trees.

InitBatch ==
    /\ srcBlocks \in SeqsUpTo(BatchBlocks, MaxBlocks)
    /\ \E trailing \in {<<>>, <<NL>>} : txt = FileText(srcBlocks) \o trailing
    /\ blocks = <<>> /\ bi = 1 /\ acc = <<>> /\ bpc = "open"
    /\ returned = <<>>
    /\ TreeIdle

\* txt = inp.read().strip(); blocks = txt.split('\n\n')
ReadBlocks ==
    /\ bpc = "open"
    /\ blocks' = split(strip(txt, Whitespace), <<NL, NL>>)
    /\ bpc' = "loop"
    /\ UNCHANGED <<srcBlocks, txt, bi, acc, returned>>
    /\ UNCHANGED treeVars

\* one element of the list comprehension; an exception leaves it
BuildBlock ==
    /\ bpc = "loop"
    /\ bi <= Len(blocks)
    /\ LET r == conllu2graph(blocks[bi]) IN
         IF r.err # "none"
         THEN /\ bpc' = "raised"
              /\ err' = r.err
              /\ acc' = <<>>
              /\ bi' = bi
         ELSE /\ acc' = Append(acc, UDTree(r))
              /\ bi' = bi + 1
              /\ UNCHANGED <<bpc, err>>
    /\ UNCHANGED <<srcBlocks, txt, blocks, returned>>
    /\ UNCHANGED <<src, record, pc, tree, result>>

\* return [...]
ReturnTrees ==
    /\ bpc = "loop"
    /\ bi > Len(blocks)
    /\ returned' = acc
    /\ bpc' = "returned"
    /\ UNCHANGED <<srcBlocks, txt, blocks, bi, acc>>
    /\ UNCHANGED treeVars

NextBatch ==
    \/ ReadBlocks
    \/ BuildBlock
    \/ ReturnTrees

SpecBatch == InitBatch /\ [][NextBatch]_vars

----------------------------------------------------------------------------
\* The input as the properties below read it: line by line, field by field.

SrcIsComment(l) == Len(l[1]) > 0 /\ l[1][1] = "#"

SrcNodeLines == SelectSeq(src, LAMBDA l : ~SrcIsComment(l))

SrcCommentLines == SelectSeq(src, SrcIsComment)

SrcMalformed ==
    \E i \in DOMAIN src : ~SrcIsComment(src[i]) /\ Len(src[i]) # NumFields

Count(seq, e) == Cardinality({i \in DOMAIN seq : seq[i] = e})

EdgeCount(g, k, e) == IF k \in DOMAIN g THEN Count(g[k], e) ELSE 0

\* a block in the sense of C1: '#'-lines and lines of 10 fields, no field
\* holding a tab or a line terminator, lines joined by single newlines
ValidBlock ==
    /\ \A i \in DOMAIN src :
         /\ SrcIsComment(src[i]) \/ Len(src[i]) = NumFields
         /\ \A f \in DOMAIN src[i] :
              Range(src[i][f]) \cap {TAB, NL, CR} = {}
    /\ record = BlockText(src)

CommentsFirst ==
    \A i, j \in DOMAIN src :
        (i < j /\ SrcIsComment(src[j])) => SrcIsComment(src[i])

SameIdSameLine ==
    \A i, j \in DOMAIN src :
        (/\ ~SrcIsComment(src[i]) /\ ~SrcIsComment(src[j])
         /\ src[i][1] = src[j][1]) => src[i] = src[j]

DistinctIds ==
    \A i, j \in DOMAIN src :
        (/\ ~SrcIsComment(src[i]) /\ ~SrcIsComment(src[j])
         /\ src[i][1] = src[j][1]) => i = j

\* the number of node lines with the ID, HEAD and DEPREL of line i
LinesLike(i) ==
    Cardinality({j \in DOMAIN src :
                   /\ ~SrcIsComment(src[j])
                   /\ src[j][1] = src[i][1]
                   /\ src[j][7] = src[i][7]
                   /\ src[j][8] = src[i][8]})

RootLines == {i \in DOMAIN src : ~SrcIsComment(src[i]) /\ src[i][7] = <<"0">>}

ExpectedChildren(k) ==
    LET deps == SelectSeq(SrcNodeLines, LAMBDA l : l[7] = k /\ l[7] # <<"_">>)
    IN [i \in DOMAIN deps |-> deps[i][1]]

----------------------------------------------------------------------------
\* C1 (as stated): rendering the tree built from any valid block gives
\* back exactly the block.
C1_RoundTrip ==
    (ValidBlock /\ pc = "built" /\ result.op = "str")
        => result.val = record

\* C1 (amended): rendering gives back exactly the block when, in addition,
\* every '#'-line precedes every node line and node lines that share an ID
\* are identical.
C1_RoundTripAmended ==
    (/\ ValidBlock /\ CommentsFirst /\ SameIdSameLine
     /\ pc = "built" /\ result.op = "str")
        => result.val = record

C1_Witness ==
    /\ ValidBlock /\ CommentsFirst /\ SameIdSameLine
    /\ pc = "built" /\ result.op = "str"
    /\ Len(src) = 3 /\ SrcIsComment(src[1]) /\ ~SrcIsComment(src[2])
    /\ src[2][1] # src[3][1]

\* C2 (as stated): every node with a HEAD other than '_' has exactly one
\* up-edge under its own key and exactly one down-edge under its HEAD.
C2_EdgeSymmetry ==
    pc = "built" =>
        \A k \in DOMAIN tree[1].nodes :
            LET n == tree[1].nodes[k] IN
            n.HEAD # <<"_">> =>
                /\ EdgeCount(tree[1].graph, n.ID,
                             UDEdge(n.HEAD, n.DEPREL, "up")) = 1
                /\ EdgeCount(tree[1].graph, n.HEAD,
                             UDEdge(n.ID, n.DEPREL, "down")) = 1

\* C2 (amended): for every node line with a HEAD other than '_', the up-edge
\* under its ID and the down-edge under its HEAD each occur once per node
\* line of the block with that ID, HEAD and DEPREL.
C2_EdgeSymmetryAmended ==
    pc = "built" =>
        \A i \in DOMAIN src :
            (~SrcIsComment(src[i]) /\ src[i][7] # <<"_">>) =>
                /\ EdgeCount(tree[1].graph, src[i][1],
                             UDEdge(src[i][7], src[i][8], "up")) = LinesLike(i)
                /\ EdgeCount(tree[1].graph, src[i][7],
                             UDEdge(src[i][1], src[i][8], "down")) = LinesLike(i)

C2_Witness ==
    /\ pc = "built"
    /\ \E i, j \in DOMAIN src :
         /\ i # j /\ src[i] = src[j]
         /\ ~SrcIsComment(src[i]) /\ src[i][7] = <<"0">>
    /\ \E i \in DOMAIN src :
         ~SrcIsComment(src[i]) /\ src[i][7] = <<"1">>

\* C3: a block with a non-comment line that has not exactly 10 fields is
\* never built: the call raises the field-count assertion and the caller
\* holds no tree.
C3_MalformedRejected ==
    SrcMalformed =>
        /\ tree = <<>>
        /\ result = NoResult
        /\ pc \in {"start", "failed"}
        /\ pc = "failed" => err = "AssertionError"

C3_Witness ==
    /\ pc = "failed" /\ err = "AssertionError" /\ tree = <<>>
    /\ Len(src) = 3 /\ SrcIsComment(src[1])
    /\ Len(src[2]) = NumFields /\ Len(src[3]) = NumFields + 1

\* C4: get_real_root on a tree without a node of HEAD '0' fails with the
\* explicit error MissingRoot.
C4_MissingRoot ==
    (pc = "built" /\ result.op = "get_real_root" /\ RootLines = {})
        => err = "MissingRoot"

\* C5: no method call changes id_lines, keys, nodes or graph of a built tree.
C5_Immutable == [][pc = "built" => tree' = tree]_vars

\* C6: get_node_children(k) returns the IDs of the node lines whose HEAD is
\* k, in the order of the lines, and the empty list without an error when
\* there is none.
C6_Children ==
    (pc = "built" /\ result.op = "get_node_children")
        => /\ err = "none"
           /\ result.val = ExpectedChildren(result.arg)

C6_Witness ==
    /\ pc = "built" /\ result.op = "get_node_children"
    /\ result.arg = <<"1">>
    /\ result.val = << <<"2">>, <<"0">> >>

\* C7: keys is the sequence of the ID fields of the non-comment lines in
\* block order, and id_lines the sequence of the '#'-lines in block order.
C7_KeyOrder ==
    pc = "built" =>
        /\ tree[1].keys = [i \in DOMAIN SrcNodeLines |-> SrcNodeLines[i][1]]
        /\ Len(tree[1].keys) = Len(SrcNodeLines)
        /\ tree[1].id_lines =
             [i \in DOMAIN SrcCommentLines |-> LineText(SrcCommentLines[i])]

C7_Witness ==
    /\ pc = "built"
    /\ Len(src) = 3
    /\ src[1][1] = <<"1", "-", "2">> /\ src[1][7] = <<"_">>
    /\ SrcIsComment(src[2])
    /\ src[3][1] = <<"1">>
    /\ tree[1].keys = << <<"1", "-", "2">>, <<"1">> >>

\* C8 (as stated): keys has no repeated element, its elements are exactly
\* the keys of nodes, and '0' has no node.
C8_Bijection ==
    pc = "built" =>
        /\ \A i, j \in DOMAIN tree[1].keys :
             tree[1].keys[i] = tree[1].keys[j] => i = j
        /\ Range(tree[1].keys) = DOMAIN tree[1].nodes
        /\ <<"0">> \notin DOMAIN tree[1].nodes

\* C8 (amended): the elements of keys are exactly the keys of nodes and
\* nodes[k] has ID k; keys has no repeated element when the IDs of the node
\* lines are pairwise distinct; '0' has a node only when a line has ID '0'.
C8_BijectionAmended ==
    pc = "built" =>
        /\ Range(tree[1].keys) = DOMAIN tree[1].nodes
        /\ \A k \in DOMAIN tree[1].nodes : tree[1].nodes[k].ID = k
        /\ DistinctIds =>
             \A i, j \in DOMAIN tree[1].keys :
                 tree[1].keys[i] = tree[1].keys[j] => i = j
        /\ <<"0">> \in DOMAIN tree[1].nodes =>
             \E i \in DOMAIN src : ~SrcIsComment(src[i]) /\ src[i][1] = <<"0">>

C8_Witness ==
    /\ pc = "built" /\ DistinctIds
    /\ Len(tree[1].keys) = 3
    /\ <<"0">> \in DOMAIN tree[1].graph
    /\ <<"0">> \notin DOMAIN tree[1].nodes
    /\ \E i \in DOMAIN src : ~SrcIsComment(src[i]) /\ src[i][7] = <<"_">>

\* C9: when a block of a file fails to parse, conllu2trees still returns
\* the trees of the blocks that parse.
C9_Isolation ==
    bpc \in {"returned", "raised"} =>
        \A i \in DOMAIN blocks :
            conllu2graph(blocks[i]).err = "none" =>
                /\ bpc = "returned"
                /\ UDTree(conllu2graph(blocks[i])) \in Range(returned)

\* C10: when exactly one node line has HEAD '0', get_node_children('0') is
\* the one-element list of that line's ID and get_real_root returns that ID.
C10_RootUnique ==
    (pc = "built" /\ Cardinality(RootLines) = 1) =>
        LET root == src[CHOOSE i \in RootLines : TRUE][1] IN
        /\ (result.op = "get_node_children" /\ result.arg = <<"0">>)
               => result.val = <<root>>
        /\ result.op = "get_real_root"
               => (err = "none" /\ result.val = root)

C10_Witness ==
    /\ pc = "built" /\ Cardinality(RootLines) = 1
    /\ result.op = "get_real_root" /\ result.val = <<"2">>
    /\ Len(src) = 3 /\ src[1][1] = <<"0">>

====
